---- MODULE Spec2Model ----
(***************************************************************************)
(* A model of alt-imate: the module-level classifier handle and the async  *)
(* entry points of src/src/index.ts, ImageClassifier (src/unnamed/part_002)*)
(* SmartCaptionGenerator (src/unnamed/part_001) and the development        *)
(* static-file server (src/unnamed/part_000).                              *)
(*                                                                         *)
(* Text.  A JavaScript string is a sequence of tokens; the underscore, the *)
(* blank and the line feed are tokens of their own, so that replace, trim  *)
(* and split act on them, and "" is << >>.  A Hangul syllable is written   *)
(* <XXXX>, its code point, inside a token; the comment beside it gives the *)
(* source text.                                                            *)
(*                                                                         *)
(* Numbers.  A probability or confidence p in [0,1] is the integer 100*p.  *)
(***************************************************************************)
EXTENDS Integers, Sequences, FiniteSets, TLC

VARIABLES
  globalClassifier,   \* index.ts: the module-level handle, 0 for null, else an instance
  model,              \* ImageClassifier.model of each instance: 0 for null, else a tf model
  isLoading,          \* ImageClassifier.isLoading of each instance
  classNamesFrom,     \* ImageClassifier.classNames of each instance, by the assignment
                      \* that set it last: see classNames(inst)
  tfModels,           \* each tf.LayersModel a download produced: "live" or "disposed"
  calls,              \* every call of an entry point: its position and its outcome
  classifications,    \* SmartCaptionGenerator: the argument of generateSmartCaption
  lastAnalysis,       \* SmartCaptionGenerator: what analyzeClassifications returned in that call
  altTextResult,      \* SmartCaptionGenerator: what generateSmartCaption returned or threw
  probabilities,      \* classify: the vector predictions.data() resolved to
  labelList,          \* classify: this.classNames at the call
  maxPredictions,     \* classify: the count the entry point passed
  lastIndices,        \* classify: the indices array of that call, after sort and slice
  classified,         \* classify: what the call returned
  serverPc,           \* dev server: "listening", "reading" (fs.readFile pending) or "responded"
  pathname,           \* dev server: url.parse(req.url).pathname of the request
  filePath,           \* dev server: the path handed to fs.readFile, << >> if none was
  response,           \* dev server: the status and the headers written to res
  progressLoads       \* loadModel calls that load, in order: position, timers, callback calls

captionVars == <<classifications, lastAnalysis, altTextResult>>

classifyVars == <<probabilities, labelList, maxPredictions, lastIndices, classified>>

libraryVars == <<globalClassifier, model, isLoading, classNamesFrom, tfModels, calls>>

serverVars == <<serverPc, pathname, filePath, response>>

progressVars == <<progressLoads>>

vars == <<libraryVars, captionVars, classifyVars, serverVars, progressVars>>

---------------------------------------------------------------------------
(* Bounds of the model *)

\* longest classification list handed to generateSmartCaption
MaxList == 4

\* longest probability vector handed to classify
MaxVector == 5

\* calls of analyzeImage, classifyImage and preloadModel in one run
MaxCalls == 2

\* longest request pathname, in tokens
MaxPath == 6

\* loadModel calls that start a load on one instance, one after the other
MaxLoads == 3

---------------------------------------------------------------------------
(* Helpers on sequences *)

Min(a, b) == IF a < b THEN a ELSE b

Max(a, b) == IF a > b THEN a ELSE b

\* Array.prototype.slice(start, end) on a 1-based sequence, JS index rules:
\* a negative index counts from the end, and both are clamped to [0, length]
JsSlice(arr, start, end) ==
  LET n == Len(arr)
      from == IF start < 0 THEN Max(n + start, 0) ELSE Min(start, n)
      to == IF end < 0 THEN Max(n + end, 0) ELSE Min(end, n)
  IN  IF from >= to THEN << >> ELSE SubSeq(arr, from + 1, to)

RECURSIVE JsJoin(_, _)
\* Array.prototype.join(separator) of an array of strings
JsJoin(strs, separator) ==
  IF Len(strs) = 0 THEN << >>
  ELSE IF Len(strs) = 1 THEN strs[1]
  ELSE strs[1] \o separator \o JsJoin(Tail(strs), separator)

RECURSIVE SumConfidence(_)
\* results.reduce((sum, r) => sum + r.confidence, 0)
SumConfidence(results) ==
  IF Len(results) = 0 THEN 0
  ELSE results[1].confidence + SumConfidence(Tail(results))

---------------------------------------------------------------------------
(* SmartCaptionGenerator, src/unnamed/part_001 *)

\* OBJECT_CATEGORIES, in the order Object.entries walks it
OBJECT_CATEGORIES ==
  <<
    [category |-> "animals", objects |-> {
        <<"golden", "_", "retriever">>,
        <<"Labrador", "_", "retriever">>,
        <<"beagle">>,
        <<"German", "_", "shepherd">>,
        <<"border", "_", "collie">>,
        <<"pug">>,
        <<"chihuahua">>,
        <<"tabby">>,
        <<"Persian", "_", "cat">>,
        <<"Siamese", "_", "cat">>,
        <<"tiger">>,
        <<"lion">>,
        <<"elephant">>,
        <<"giraffe">>,
        <<"zebra">>,
        <<"panda">>}],
    [category |-> "food", objects |-> {
        <<"banana">>,
        <<"apple">>,
        <<"orange">>,
        <<"strawberry">>,
        <<"pizza">>,
        <<"hamburger">>,
        <<"hot", "_", "dog">>,
        <<"coffee", "_", "mug">>,
        <<"wine", "_", "bottle">>,
        <<"sandwich">>,
        <<"ice", "_", "cream">>}],
    [category |-> "vehicles", objects |-> {
        <<"sports", "_", "car">>,
        <<"convertible">>,
        <<"limousine">>,
        <<"motorcycle">>,
        <<"bicycle">>,
        <<"school", "_", "bus">>,
        <<"truck">>,
        <<"airplane">>,
        <<"ship">>}],
    [category |-> "electronics", objects |-> {
        <<"laptop">>,
        <<"desktop", "_", "computer">>,
        <<"cellular", "_", "telephone">>,
        <<"television">>,
        <<"radio">>,
        <<"computer", "_", "keyboard">>,
        <<"computer", "_", "mouse">>}],
    [category |-> "furniture", objects |-> {
        <<"chair">>,
        <<"table">>,
        <<"bed">>,
        <<"sofa">>,
        <<"bookshelf">>,
        <<"lamp">>,
        <<"clock">>}],
    [category |-> "clothing", objects |-> {
        <<"suit">>,
        <<"dress">>,
        <<"jeans">>,
        <<"T-shirt">>,
        <<"sneakers">>,
        <<"hat">>}],
    [category |-> "sports", objects |-> {
        <<"tennis", "_", "ball">>,
        <<"basketball">>,
        <<"soccer", "_", "ball">>,
        <<"guitar">>,
        <<"piano">>,
        <<"violin">>}]
  >>

\* KOREAN_TRANSLATIONS
KOREAN_TRANSLATIONS ==
  (
    <<"golden", "_", "retriever">> :> <<"<ACE8><B4E0> <B9AC><D2B8><B9AC><BC84>">> @@  \* 골든 리트리버
    <<"Labrador", "_", "retriever">> :> <<"<B798><BE0C><B77C><B3C4> <B9AC><D2B8><B9AC><BC84>">> @@  \* 래브라도 리트리버
    <<"beagle">> :> <<"<BE44><AE00>">> @@  \* 비글
    <<"German", "_", "shepherd">> :> <<"<C800><BA3C> <C170><D37C><B4DC>">> @@  \* 저먼 셰퍼드
    <<"border", "_", "collie">> :> <<"<BCF4><B354> <CF5C><B9AC>">> @@  \* 보더 콜리
    <<"pug">> :> <<"<D37C><ADF8>">> @@  \* 퍼그
    <<"chihuahua">> :> <<"<CE58><C640><C640>">> @@  \* 치와와
    <<"tabby">> :> <<"<C5BC><B8E9><BB34><B2AC> <ACE0><C591><C774>">> @@  \* 얼룩무늬 고양이
    <<"Persian", "_", "cat">> :> <<"<D398><B974><C2DC><C548> <ACE0><C591><C774>">> @@  \* 페르시안 고양이
    <<"Siamese", "_", "cat">> :> <<"<C0F4> <ACE0><C591><C774>">> @@  \* 샴 고양이
    <<"tiger">> :> <<"<D638><B791><C774>">> @@  \* 호랑이
    <<"lion">> :> <<"<C0AC><C790>">> @@  \* 사자
    <<"elephant">> :> <<"<CF54><B07C><B9AC>">> @@  \* 코끼리
    <<"giraffe">> :> <<"<AE30><B9B0>">> @@  \* 기린
    <<"zebra">> :> <<"<C5BC><B8E9><B9D0>">> @@  \* 얼룩말
    <<"panda">> :> <<"<D310><B2E4>">> @@  \* 판다
    <<"banana">> :> <<"<BC14><B098><B098>">> @@  \* 바나나
    <<"apple">> :> <<"<C0AC><ACFC>">> @@  \* 사과
    <<"orange">> :> <<"<C624><B80C><C9C0>">> @@  \* 오렌지
    <<"strawberry">> :> <<"<B538><AE30>">> @@  \* 딸기
    <<"pizza">> :> <<"<D53C><C790>">> @@  \* 피자
    <<"hamburger">> :> <<"<D584><BC84><AC70>">> @@  \* 햄버거
    <<"hot", "_", "dog">> :> <<"<D56B><B3C4><ADF8>">> @@  \* 핫도그
    <<"coffee", "_", "mug">> :> <<"<CEE4><D53C><C794>">> @@  \* 커피잔
    <<"wine", "_", "bottle">> :> <<"<C640><C778><BCD1>">> @@  \* 와인병
    <<"sandwich">> :> <<"<C0CC><B4DC><C704><CE58>">> @@  \* 샌드위치
    <<"ice", "_", "cream">> :> <<"<C544><C774><C2A4><D06C><B9BC>">> @@  \* 아이스크림
    <<"laptop">> :> <<"<B178><D2B8><BD81>">> @@  \* 노트북
    <<"desktop", "_", "computer">> :> <<"<B370><C2A4><D06C><D1B1> <CEF4><D4E8><D130>">> @@  \* 데스크톱 컴퓨터
    <<"cellular", "_", "telephone">> :> <<"<C2A4><B9C8><D2B8><D3F0>">> @@  \* 스마트폰
    <<"television">> :> <<"<D154><B808><BE44><C804>">> @@  \* 텔레비전
    <<"radio">> :> <<"<B77C><B514><C624>">> @@  \* 라디오
    <<"computer", "_", "keyboard">> :> <<"<D0A4><BCF4><B4DC>">> @@  \* 키보드
    <<"computer", "_", "mouse">> :> <<"<B9C8><C6B0><C2A4>">> @@  \* 마우스
    <<"sports", "_", "car">> :> <<"<C2A4><D3EC><CE20><CE74>">> @@  \* 스포츠카
    <<"convertible">> :> <<"<CEE8><BC84><D130><BE14>">> @@  \* 컨버터블
    <<"motorcycle">> :> <<"<C624><D1A0><BC14><C774>">> @@  \* 오토바이
    <<"bicycle">> :> <<"<C790><C804><AC70>">> @@  \* 자전거
    <<"school", "_", "bus">> :> <<"<C2A4><CFE8><BC84><C2A4>">> @@  \* 스쿨버스
    <<"chair">> :> <<"<C758><C790>">> @@  \* 의자
    <<"table">> :> <<"<D14C><C774><BE14>">> @@  \* 테이블
    <<"bed">> :> <<"<CE68><B300>">> @@  \* 침대
    <<"sofa">> :> <<"<C18C><D30C>">> @@  \* 소파
    <<"lamp">> :> <<"<B7A8><D504>">> @@  \* 램프
    <<"suit">> :> <<"<C815><C7A5>">> @@  \* 정장
    <<"dress">> :> <<"<B4DC><B808><C2A4>">> @@  \* 드레스
    <<"jeans">> :> <<"<CCAD><BC14><C9C0>">> @@  \* 청바지
    <<"sneakers">> :> <<"<C6B4><B3D9><D654>">> @@  \* 운동화
    <<"hat">> :> <<"<BAA8><C790>">>  \* 모자
  )

\* getObjectCategory: the first category, in the table's order, listing className
getObjectCategory(className) ==
  LET hits == {i \in 1..Len(OBJECT_CATEGORIES) : className \in OBJECT_CATEGORIES[i].objects}
  IN  IF hits = {} THEN "unknown"
      ELSE OBJECT_CATEGORIES[CHOOSE i \in hits : \A j \in hits : i <= j].category

\* className.replace(/_/g, ' ')
replaceUnderscores(className) ==
  [i \in 1..Len(className) |-> IF className[i] = "_" THEN " " ELSE className[i]]

\* getKoreanName: KOREAN_TRANSLATIONS[className] || className.replace(/_/g, ' ')
getKoreanName(className) ==
  IF className \in DOMAIN KOREAN_TRANSLATIONS /\ KOREAN_TRANSLATIONS[className] # << >>
  THEN KOREAN_TRANSLATIONS[className]
  ELSE replaceUnderscores(className)

\* getCategoryDescription: descriptions[category] || '객체'
getCategoryDescription(category) ==
  CASE category = "animals" -> <<"<B3D9><BB3C>">>                          \* 동물
    [] category = "food" -> <<"<C74C><C2DD>">>                             \* 음식
    [] category = "vehicles" -> <<"<CC28><B7C9>">>                         \* 차량
    [] category = "electronics" -> <<"<C804><C790><AE30><AE30>">>          \* 전자기기
    [] category = "furniture" -> <<"<AC00><AD6C>">>                        \* 가구
    [] category = "clothing" -> <<"<C758><B958>">>                         \* 의류
    [] category = "sports" -> <<"<C2A4><D3EC><CE20> <C6A9><D488>">>        \* 스포츠 용품
    [] OTHER -> <<"<AC1D><CCB4>">>                                         \* 객체

\* Map.has(category) on the insertion-ordered Map, a sequence of entries
MapHas(categorized, category) ==
  \E i \in 1..Len(categorized) : categorized[i].category = category

\* Map.get(category); only used where MapHas holds (undefined otherwise)
MapGet(categorized, category) ==
  categorized[CHOOSE i \in 1..Len(categorized) : categorized[i].category = category].results

RECURSIVE categorize(_, _)
\* the loop of analyzeClassifications: each result is pushed onto its category's
\* list, a category entering the Map when its first result arrives
categorize(topResults, categorized) ==
  IF Len(topResults) = 0 THEN categorized
  ELSE LET result == topResults[1]
           category == getObjectCategory(result.className)
           next ==
             IF MapHas(categorized, category)
             THEN [i \in 1..Len(categorized) |->
                    IF categorized[i].category = category
                    THEN [categorized[i] EXCEPT !.results = Append(@, result)]
                    ELSE categorized[i]]
             ELSE Append(categorized, [category |-> category, results |-> <<result>>])
       IN  categorize(Tail(topResults), next)

\* avgConfidence of one category, times 6: results holds 1, 2 or 3 records, so the
\* quotient is exact and comparing these compares the means
avgConfidence(results) == (6 * SumConfidence(results)) \div Len(results)

RECURSIVE dominantLoop(_, _, _)
\* the loop of getDominantCategory over the Map's entries, in insertion order
dominantLoop(categorized, maxConfidence, dominantCategory) ==
  IF Len(categorized) = 0 THEN dominantCategory
  ELSE LET avg == avgConfidence(categorized[1].results)
       IN  IF avg > maxConfidence
           THEN dominantLoop(Tail(categorized), avg, categorized[1].category)
           ELSE dominantLoop(Tail(categorized), maxConfidence, dominantCategory)

\* getDominantCategory: maxConfidence starts at 0, dominantCategory at 'unknown'
getDominantCategory(categorized) == dominantLoop(categorized, 0, "unknown")

\* analyzeClassifications; translated.get(name) is getKoreanName(name) for every
\* className of topResults, the only keys the Map is asked for
analyzeClassifications(cls) ==
  LET topResults == JsSlice(cls, 0, 3)
      categorized == categorize(topResults, << >>)
  IN  [topResult |-> topResults[1],
       categorized |-> categorized,
       hasMultipleCategories |-> Len(categorized) > 1,
       dominantCategory |-> getDominantCategory(categorized)]

\* generateSingleObjectCaption with the animals' upper threshold at 0.9
generateSingleObjectCaption_Threshold(object, confidence, category) ==
  IF category = "animals" /\ confidence > 90
  THEN <<"<ADC0><C5EC><C6B4> ">> \o object \o <<"<C758> <C0AC><C9C4><C785><B2C8><B2E4>">>
  ELSE object \o <<"<B85C> <BCF4><C774><B294> <B3D9><BB3C><C774> <C788><C2B5><B2C8><B2E4>">>

\* generateSingleObjectCaption
generateSingleObjectCaption(object, confidence, category) ==
  IF category = "animals"
  THEN IF confidence > 80
       THEN <<"<ADC0><C5EC><C6B4> ">> \o object \o <<"<C758> <C0AC><C9C4><C785><B2C8><B2E4>">>  \* 귀여운 ${object}의 사진입니다
       ELSE IF confidence > 50
       THEN object \o <<"<B85C> <BCF4><C774><B294> <B3D9><BB3C><C774> <C788><C2B5><B2C8><B2E4>">>  \* ${object}로 보이는 동물이 있습니다
       ELSE object \o <<"<C640> <BE44><C2B7><D55C> <B3D9><BB3C><C774> <BCF4><C785><B2C8><B2E4>">>  \* ${object}와 비슷한 동물이 보입니다
  ELSE IF category = "food"
  THEN IF confidence > 80
       THEN <<"<B9DB><C788><C5B4> <BCF4><C774><B294> ">> \o object \o <<"<C785><B2C8><B2E4>">>  \* 맛있어 보이는 ${object}입니다
       ELSE object \o <<"<B85C> <BCF4><C774><B294> <C74C><C2DD><C774> <C788><C2B5><B2C8><B2E4>">>  \* ${object}로 보이는 음식이 있습니다
  ELSE IF category = "electronics"
  THEN object \o <<"<AC00> <C788><B294> <BAA8><C2B5><C785><B2C8><B2E4>">>  \* ${object}가 있는 모습입니다
  ELSE IF confidence > 70
  THEN <<"<C0AC><C9C4><C5D0> ">> \o object \o <<"<AC00> <BCF4><C785><B2C8><B2E4>">>  \* 사진에 ${object}가 보입니다
  ELSE IF confidence > 40
  THEN object \o <<"<B85C> <BCF4><C774><B294> <AC1D><CCB4><AC00> <C788><C2B5><B2C8><B2E4>">>  \* ${object}로 보이는 객체가 있습니다
  ELSE object \o <<"<C640> <BE44><C2B7><D55C> <AC83><C774> <BCF4><C785><B2C8><B2E4>">>  \* ${object}와 비슷한 것이 보입니다

\* generateSameCategoryCaption
generateSameCategoryCaption(objects, category) ==
  LET categoryDesc == getCategoryDescription(category)
  IN  IF Len(objects) = 1
      THEN categoryDesc \o <<" <C0AC><C9C4><C785><B2C8><B2E4>. ">> \o objects[1]
             \o <<"<AC00> <BCF4><C785><B2C8><B2E4>">>  \* ${categoryDesc} 사진입니다. ${objects[0]}가 보입니다
      ELSE categoryDesc \o <<" <AD00><B828> <C0AC><C9C4><C785><B2C8><B2E4>. ">>
             \o JsJoin(objects, <<"<C640> ">>)
             \o <<"<AC00> <BCF4><C785><B2C8><B2E4>">>  \* ${categoryDesc} 관련 사진입니다. ${objects.join('와 ')}가 보입니다

\* generateMixedCategoryCaption
generateMixedCategoryCaption(mainObject, otherObjects) ==
  IF Len(otherObjects) = 0
  THEN <<"<C8FC><B85C> ">> \o mainObject
         \o <<"<AC00> <BCF4><C774><B294> <C0AC><C9C4><C785><B2C8><B2E4>">>  \* 주로 ${mainObject}가 보이는 사진입니다
  ELSE IF Len(otherObjects) = 1
  THEN mainObject \o <<"<C640> ">> \o otherObjects[1]
         \o <<"<AC00> <D568><AED8> <C788><B294> <C0AC><C9C4><C785><B2C8><B2E4>">>  \* ${mainObject}와 ${otherObjects[0]}가 함께 있는 사진입니다
  ELSE mainObject
         \o <<"<B97C> <D3EC><D568><D574> <C5EC><B7EC> <AC1D><CCB4><B4E4><C774> <C788><B294> <BCF5><D569><C801><C778> <C0AC><C9C4><C785><B2C8><B2E4>">>  \* ${mainObject}를 포함해 여러 객체들이 있는 복합적인 사진입니다

RECURSIVE koreanNames(_)
\* the loops "const koreanName = translated.get(result.className);
\* if (koreanName) objects.push(koreanName)" over a list of results
koreanNames(results) ==
  IF Len(results) = 0 THEN << >>
  ELSE LET koreanName == getKoreanName(results[1].className)
       IN  (IF koreanName # << >> THEN <<koreanName>> ELSE << >>) \o koreanNames(Tail(results))

RECURSIVE otherObjectsOf(_)
\* for (const results of categorized.values()) for (const result of results.slice(1, 3)) ...
otherObjectsOf(categorized) ==
  IF Len(categorized) = 0 THEN << >>
  ELSE koreanNames(JsSlice(categorized[1].results, 1, 3)) \o otherObjectsOf(Tail(categorized))

\* what a call returns: its value, or the error it throws
Returned(value) == [error |-> "none", value |-> value]

Thrown(error) == [error |-> error, value |-> << >>]

\* generateContextualCaption.  categorized.get(dominantCategory)!.length reads a
\* property of undefined, a TypeError, when the Map has no such key
generateContextualCaption(analysis) ==
  LET topResult == analysis.topResult
      categorized == analysis.categorized
      dominantCategory == analysis.dominantCategory
      translatedTop == getKoreanName(topResult.className)
      mainObject == IF translatedTop # << >> THEN translatedTop ELSE topResult.className
      confidence == topResult.confidence
  IN  IF Len(categorized) = 1 /\ ~MapHas(categorized, dominantCategory)
      THEN Thrown("TypeError")
      ELSE IF Len(categorized) = 1 /\ Len(MapGet(categorized, dominantCategory)) = 1
      THEN Returned(generateSingleObjectCaption(mainObject, confidence, dominantCategory))
      ELSE IF ~analysis.hasMultipleCategories
      THEN Returned(generateSameCategoryCaption(
                      koreanNames(JsSlice(MapGet(categorized, dominantCategory), 0, 2)),
                      dominantCategory))
      ELSE Returned(generateMixedCategoryCaption(mainObject, otherObjectsOf(categorized)))

\* generateSmartCaption without its guard for the empty list: topResult is then
\* undefined and generateContextualCaption reads a property of it
generateSmartCaption_NoEmptyGuard(cls) ==
  IF Len(cls) = 0 THEN Thrown("TypeError")
  ELSE LET caption == generateContextualCaption(analyzeClassifications(cls))
       IN  IF caption.error # "none"
           THEN Thrown(caption.error)
           ELSE Returned([altText |-> caption.value,
                          classifications |-> cls,
                          confidence |-> cls[1].confidence])

\* generateSmartCaption
generateSmartCaption(cls) ==
  IF Len(cls) = 0
  THEN Returned([altText |-> <<"<BD84><C11D><D560> <C218> <C5C6><B294> <C774><BBF8><C9C0><C785><B2C8><B2E4>">>,  \* 분석할 수 없는 이미지입니다
                 classifications |-> << >>,
                 confidence |-> 0])
  ELSE LET analysis == analyzeClassifications(cls)
           caption == generateContextualCaption(analysis)
       IN  IF caption.error # "none"
           THEN Thrown(caption.error)
           ELSE Returned([altText |-> caption.value,
                          classifications |-> cls,
                          confidence |-> cls[1].confidence])

---------------------------------------------------------------------------
(* ImageClassifier.classify, src/unnamed/part_002 *)

\* Array.from({ length: 1000 }, ...): the number of fallback labels
PlaceholderCount == 1000

\* the default of "options.maxPredictions || 5"
DefaultMaxPredictions == 5

\* Array.from({ length: 1000 }, (_, i) => `class_${i}`)
placeholderLabels == [i \in 1..PlaceholderCount |-> <<"class", "_", ToString(i - 1)>>]

\* this.classNames[index] || `Unknown_${index}`: undefined past the end of the
\* array and the empty string are both falsy
classNameAt(names, index) ==
  IF (index + 1) \in DOMAIN names /\ names[index + 1] # << >>
  THEN names[index + 1]
  ELSE <<"Unknown", "_", ToString(index)>>

\* Array.from(probabilities).map((prob, index) => ({ probability: prob, index }))
indexed(probs) == [i \in 1..Len(probs) |-> [probability |-> probs[i], index |-> i - 1]]

RECURSIVE sortDescending(_)
\* .sort((a, b) => b.probability - a.probability): Array.prototype.sort is stable,
\* so entries of equal probability keep their order
sortDescending(entries) ==
  IF Len(entries) <= 1 THEN entries
  ELSE LET rest == sortDescending(SubSeq(entries, 1, Len(entries) - 1))
           last == entries[Len(entries)]
           keep == Cardinality({i \in 1..Len(rest) : rest[i].probability >= last.probability})
       IN  SubSeq(rest, 1, keep) \o <<last>> \o SubSeq(rest, keep + 1, Len(rest))

\* the indices array of classify: sorted, then .slice(0, maxPredictions)
topIndices(probs, count) == JsSlice(sortDescending(indexed(probs)), 0, count)

\* the loop of classify over indices with the label looked up at the position in
\* the sorted list instead of at the record's index
resultsOf_LabelByRank(names, indices) ==
  [i \in 1..Len(indices) |->
    [className |-> classNameAt(names, i - 1),
     probability |-> indices[i].probability,
     confidence |-> indices[i].probability]]

\* the loop of classify over indices: one ClassificationResult each
resultsOf(names, indices) ==
  [i \in 1..Len(indices) |->
    [className |-> classNameAt(names, indices[i].index),
     probability |-> indices[i].probability,
     confidence |-> indices[i].probability]]

\* classify, from the resolved probabilities on
classify(names, probs, count) == resultsOf(names, topIndices(probs, count))

\* "options.maxPredictions || 5" of analyzeImage and classifyImage; the option is
\* << >> when absent and <<k>> when given
maxPredictionsArg(option) ==
  IF option = << >> \/ option[1] = 0 THEN DefaultMaxPredictions ELSE option[1]

---------------------------------------------------------------------------
(* The state of each part before its first call *)

\* no call of generateSmartCaption has been made
NoResult == [error |-> "pending", value |-> << >>]

\* analyzeClassifications has not run: no call yet, or the list was empty
NoAnalysis ==
  [topResult |-> << >>, categorized |-> << >>, hasMultipleCategories |-> FALSE,
   dominantCategory |-> "none"]

\* the caption generator before any call
CaptionIdle ==
  /\ classifications = << >>
  /\ lastAnalysis = NoAnalysis
  /\ altTextResult = NoResult

\* the library before any call: no classifier, no model, no call
LibraryIdle ==
  /\ globalClassifier = 0
  /\ model = << >>
  /\ isLoading = << >>
  /\ classNamesFrom = << >>
  /\ tfModels = << >>
  /\ calls = << >>

\* no response written yet
NoResponse == [status |-> 0, headers |-> {}]

\* the server before any request
ServerIdle ==
  /\ serverPc = "listening"
  /\ pathname = << >>
  /\ filePath = << >>
  /\ response = NoResponse

\* no loadModel has been called
ProgressIdle == progressLoads = << >>

\* no call of classify has been made
NoCount == << >>

\* the classifier function before any call
ClassifyIdle ==
  /\ probabilities = << >>
  /\ labelList = << >>
  /\ maxPredictions = NoCount
  /\ lastIndices = << >>
  /\ classified = << >>

---------------------------------------------------------------------------
(* The library: src/src/index.ts over ImageClassifier (src/unnamed/part_002). *)
(* JavaScript runs one task at a time: a step is the code between one await   *)
(* and the next.                                                              *)

\* String.prototype.trim: the white space a label file may start or end with
WhiteSpace == {" ", "\n", "\t", "\r"}

RECURSIVE trimStart(_)
trimStart(text) ==
  IF Len(text) > 0 /\ text[1] \in WhiteSpace THEN trimStart(Tail(text)) ELSE text

RECURSIVE trimEnd(_)
trimEnd(text) ==
  IF Len(text) > 0 /\ text[Len(text)] \in WhiteSpace
  THEN trimEnd(SubSeq(text, 1, Len(text) - 1))
  ELSE text

\* labelsText.trim()
JsTrim(text) == trimEnd(trimStart(text))

RECURSIVE JsSplit(_, _)
\* String.prototype.split(separator): the text with no separator is one piece
JsSplit(text, separator) ==
  LET at == {i \in 1..Len(text) : text[i] = separator}
  IN  IF at = {} THEN <<text>>
      ELSE LET first == CHOOSE i \in at : \A j \in at : i <= j
           IN  <<SubSeq(text, 1, first - 1)>>
                 \o JsSplit(SubSeq(text, first + 1, Len(text)), separator)

\* the body the label URL answers with: three labels, each ended by a line feed
LabelFiles == { <<"tench", "\n", "golden", "_", "retriever", "\n", "banana", "\n">> }

\* how "await fetch(labelsUrl)" and the check of response.ok may end
LabelFetchOutcomes == {"ok", "networkError", "httpError"}

\* loadImageNetLabels: whether the try block or the catch block set this.classNames
labelsLoaded(fetched) == IF fetched = "ok" THEN "ok" ELSE "failed"

\* "private classNames: string[] = []": the field as the constructor leaves it
InitialClassNames == [by |-> "constructor", labelsText |-> << >>]

\* loadImageNetLabels: the assignment to this.classNames it makes, that of the try
\* block from the body fetched, or that of the catch block
loadImageNetLabels(fetched, labelsText) ==
  IF fetched = "ok" THEN [by |-> "try", labelsText |-> labelsText]
  ELSE [by |-> "catch", labelsText |-> << >>]

\* the array an assignment stores in this.classNames
classNamesArray(assignment) ==
  CASE assignment.by = "constructor" -> << >>
    [] assignment.by = "try" -> JsSplit(JsTrim(assignment.labelsText), "\n")
    [] assignment.by = "catch" -> placeholderLabels

\* vectors predictions.data() may resolve to in a call of an entry point
LibraryVectors == {<<70, 30>>, <<0>>}

\* the entry points
EntryPoints == {"analyzeImage", "classifyImage", "preloadModel"}

\* the instances constructed so far
Instances == 1..Len(model)

\* this.classNames of an instance
classNames(inst) == classNamesArray(classNamesFrom[inst])

\* isModelLoaded(): this.model !== null
isModelLoaded(inst) == model[inst] # 0

\* getModelInfo()
getModelInfo(inst) ==
  [totalClasses |-> Len(classNames(inst)), isLoaded |-> isModelLoaded(inst)]

\* getModelStatus()
getModelStatus ==
  IF globalClassifier = 0 THEN [totalClasses |-> 0, isLoaded |-> FALSE]
  ELSE getModelInfo(globalClassifier)

\* a call that has not settled
Pending == [state |-> "pending", error |-> "none", code |-> "none"]

\* a call's promise resolved
Resolved == [state |-> "resolved", error |-> "none", code |-> "none"]

\* a call's promise rejected with an error of a type and, for ImageAnalysisError, a code
Rejected(error, code) == [state |-> "rejected", error |-> error, code |-> code]

\* what reaches the caller when `error` is thrown inside the entry point: the catch
\* of analyzeImage rethrows an ImageAnalysisError and wraps anything else, that of
\* classifyImage wraps everything, and preloadModel has no catch
entryPointThrows(fn, error) ==
  CASE fn = "analyzeImage" -> Rejected("ImageAnalysisError", "ANALYSIS_FAILED")
    [] fn = "classifyImage" -> Rejected("ImageAnalysisError", "CLASSIFICATION_FAILED")
    [] fn = "preloadModel" -> Rejected(error, "none")

\* the call once `error` was thrown inside it
failed(call, error) ==
  [call EXCEPT !.pc = "done", !.outcome = entryPointThrows(call.fn, error)]

\* the call once loadModel threw: its catch rethrows as new Error(...)
loadModelThrew(call) ==
  failed([call EXCEPT !.loadModel = "rejected"], "Error")

\* the call once loadModel returned: preloadModel is done, the other two go on to
\* "await ImageProcessor.processImage(...)"
loadModelReturned(call) ==
  IF call.fn = "preloadModel"
  THEN [call EXCEPT !.pc = "done", !.loadModel = "resolved", !.outcome = Resolved]
  ELSE [call EXCEPT !.pc = "processImage", !.loadModel = "resolved"]

\* a call entering an entry point: "if (!globalClassifier) globalClassifier = new
\* ImageClassifier()", then "if (!globalClassifier.isModelLoaded()) await
\* globalClassifier.loadModel(...)" up to loadModel's first await
StartCall(fn) ==
  /\ Len(calls) < MaxCalls
  /\ LET fresh == globalClassifier = 0
         inst == IF fresh THEN Len(model) + 1 ELSE globalClassifier
         model1 == IF fresh THEN Append(model, 0) ELSE model
         isLoading1 == IF fresh THEN Append(isLoading, FALSE) ELSE isLoading
         \* self: the instance the entry point found in globalClassifier, the `this`
         \* of its loadModel; classifySelf: the `this` of its classify, 0 before it
         call == [fn |-> fn, pc |-> "entered", self |-> inst, classifySelf |-> 0,
                  loadModel |-> "none", labelFetch |-> "none", outcome |-> Pending]
     IN  /\ globalClassifier' = inst
         /\ model' = model1
         /\ classNamesFrom' = IF fresh THEN Append(classNamesFrom, InitialClassNames)
                             ELSE classNamesFrom
         /\ IF model1[inst] # 0
            THEN \* the model is loaded: loadModel is not called
                 /\ isLoading' = isLoading1
                 /\ calls' = Append(calls,
                      IF fn = "preloadModel"
                      THEN [call EXCEPT !.pc = "done", !.outcome = Resolved]
                      ELSE [call EXCEPT !.pc = "processImage"])
            ELSE IF isLoading1[inst]
            THEN \* loadModel: "if (this.isLoading) await this.waitForLoading()"
                 /\ isLoading' = isLoading1
                 /\ calls' = Append(calls,
                      [call EXCEPT !.pc = "waitForLoading", !.loadModel = "pending"])
            ELSE \* loadModel: "this.isLoading = true", then "await tf.loadLayersModel"
                 /\ isLoading' = [isLoading1 EXCEPT ![inst] = TRUE]
                 /\ calls' = Append(calls,
                      [call EXCEPT !.pc = "loadLayersModel", !.loadModel = "pending"])
  /\ UNCHANGED <<tfModels, captionVars, classifyVars, serverVars, progressVars>>

\* "this.model = await tf.loadLayersModel(modelUrl)" settles: the model is stored
\* and loadImageNetLabels awaits its fetch, or the download failed and loadModel
\* throws through its catch and finally
LoadLayersModelSettles(c) ==
  /\ calls[c].pc = "loadLayersModel"
  /\ \E ok \in BOOLEAN :
       IF ok
       THEN /\ tfModels' = Append(tfModels, "live")
            /\ model' = [model EXCEPT ![calls[c].self] = Len(tfModels) + 1]
            /\ calls' = [calls EXCEPT ![c] = [@ EXCEPT !.pc = "loadImageNetLabels"]]
            /\ UNCHANGED isLoading
       ELSE /\ isLoading' = [isLoading EXCEPT ![calls[c].self] = FALSE]
            /\ calls' = [calls EXCEPT ![c] = loadModelThrew(@)]
            /\ UNCHANGED <<tfModels, model>>
  /\ UNCHANGED <<globalClassifier, classNamesFrom, captionVars, classifyVars, serverVars, progressVars>>

\* "await this.loadImageNetLabels()" settles: classNames is set from the file or
\* to the placeholders; then loadModel logs this.model.layers.length, a TypeError
\* when this.model is null by then, which its catch rethrows; finally isLoading
\* is cleared
LoadImageNetLabelsSettles(c) ==
  /\ calls[c].pc = "loadImageNetLabels"
  /\ \E fetched \in LabelFetchOutcomes, labelsText \in LabelFiles :
       /\ classNamesFrom' = [classNamesFrom EXCEPT ![calls[c].self] =
                               loadImageNetLabels(fetched, labelsText)]
       /\ calls' = [calls EXCEPT ![c] =
            IF model[calls[c].self] = 0
            THEN loadModelThrew([@ EXCEPT !.labelFetch = labelsLoaded(fetched)])
            ELSE loadModelReturned([@ EXCEPT !.labelFetch = labelsLoaded(fetched)])]
  /\ isLoading' = [isLoading EXCEPT ![calls[c].self] = FALSE]
  /\ UNCHANGED <<globalClassifier, model, tfModels, captionVars, classifyVars, serverVars, progressVars>>

\* waitForLoading with a loop that polls for the model instead of isLoading: it
\* ends only once the model is there
WaitForLoadingEnds_UntilLoaded(c) ==
  /\ calls[c].pc = "waitForLoading"
  /\ model[calls[c].self] # 0
  /\ calls' = [calls EXCEPT ![c] = loadModelReturned(@)]
  /\ UNCHANGED <<globalClassifier, model, isLoading, classNamesFrom, tfModels,
                 captionVars, classifyVars, serverVars, progressVars>>

\* waitForLoading: a poll of the 100 ms timer finds isLoading false, and loadModel
\* returns
WaitForLoadingEnds(c) ==
  /\ calls[c].pc = "waitForLoading"
  /\ ~isLoading[calls[c].self]
  /\ calls' = [calls EXCEPT ![c] = loadModelReturned(@)]
  /\ UNCHANGED <<globalClassifier, model, isLoading, classNamesFrom, tfModels,
                 captionVars, classifyVars, serverVars, progressVars>>

\* "await ImageProcessor.processImage(...)" settles: it threw, or the tensor is
\* there and globalClassifier.classify(...) runs up to "await predictions.data()";
\* globalClassifier is read again here, null after a cleanup (a TypeError), and
\* classify throws when its model is null
ProcessImageSettles(c) ==
  /\ calls[c].pc = "processImage"
  /\ \E ok \in BOOLEAN :
       calls' = [calls EXCEPT ![c] =
         IF ~ok THEN failed(@, "Error")
         ELSE IF globalClassifier = 0 THEN failed(@, "TypeError")
         ELSE IF model[globalClassifier] = 0 THEN failed(@, "Error")
         ELSE [@ EXCEPT !.pc = "predictionsData", !.classifySelf = globalClassifier]]
  /\ UNCHANGED <<globalClassifier, model, isLoading, classNamesFrom, tfModels,
                 captionVars, classifyVars, serverVars, progressVars>>

\* "await predictions.data()" settles: it threw, or classify builds its records
\* from this.classNames; classifyImage returns them, analyzeImage returns
\* generateSmartCaption of them, or wraps what that throws
PredictionsDataSettles(c) ==
  /\ calls[c].pc = "predictionsData"
  /\ \E ok \in BOOLEAN, probs \in LibraryVectors :
       LET records == classify(classNames(calls[c].classifySelf), probs,
                               DefaultMaxPredictions)
           caption == generateSmartCaption(records)
       IN  calls' = [calls EXCEPT ![c] =
             IF ~ok THEN failed(@, "Error")
             ELSE IF @.fn = "analyzeImage" /\ caption.error # "none"
             THEN failed(@, caption.error)
             ELSE [@ EXCEPT !.pc = "done", !.outcome = Resolved]]
  /\ UNCHANGED <<globalClassifier, model, isLoading, classNamesFrom, tfModels,
                 captionVars, classifyVars, serverVars, progressVars>>

\* ImageClassifier.dispose() of an instance: the models after it
disposedModels(inst) ==
  IF model[inst] = 0 THEN tfModels ELSE [tfModels EXCEPT ![model[inst]] = "disposed"]

\* cleanup(): "if (globalClassifier) { globalClassifier.dispose(); globalClassifier = null }"
Cleanup ==
  /\ IF globalClassifier # 0
     THEN /\ tfModels' = disposedModels(globalClassifier)
          /\ model' = [model EXCEPT ![globalClassifier] = 0]
          /\ globalClassifier' = 0
     ELSE UNCHANGED <<tfModels, model, globalClassifier>>
  /\ UNCHANGED <<isLoading, classNamesFrom, calls, captionVars, classifyVars, serverVars, progressVars>>

Init ==
  /\ LibraryIdle
  /\ CaptionIdle
  /\ ClassifyIdle
  /\ ServerIdle
  /\ ProgressIdle

Next ==
  \/ \E fn \in EntryPoints : StartCall(fn)
  \/ \E c \in 1..Len(calls) : LoadLayersModelSettles(c)
  \/ \E c \in 1..Len(calls) : LoadImageNetLabelsSettles(c)
  \/ \E c \in 1..Len(calls) : WaitForLoadingEnds(c)
  \/ \E c \in 1..Len(calls) : ProcessImageSettles(c)
  \/ \E c \in 1..Len(calls) : PredictionsDataSettles(c)
  \/ Cleanup

Spec == Init /\ [][Next]_vars

\* the calls whose loadModel awaits its weight download
LoadsInProgress == {c \in 1..Len(calls) : calls[c].pc = "loadLayersModel"}

\* every call made has settled
AllSettled == \A c \in 1..Len(calls) : calls[c].pc = "done"

\* C1: under every interleaving of analyzeImage, classifyImage, preloadModel and
\* cleanup, at most one weight download started by loadModel is unsettled.
C1_AtMostOneLoad == Cardinality(LoadsInProgress) <= 1

\* C1, its case: one download in progress while a second call waits for it
C1_Witness ==
  /\ Cardinality(LoadsInProgress) = 1
  /\ \E c \in 1..Len(calls) : calls[c].pc = "waitForLoading"

\* C2: whatever fails inside analyzeImage, classifyImage or preloadModel, the
\* caller receives an ImageAnalysisError that carries a code, and no other error.
C2_OnlyImageAnalysisError ==
  \A c \in 1..Len(calls) :
    calls[c].outcome.state = "rejected"
      => (calls[c].outcome.error = "ImageAnalysisError" /\ calls[c].outcome.code # "none")

\* C2, its case: a call that failed while loading the model and rejected with an
\* ImageAnalysisError
C2_Witness ==
  \E c \in 1..Len(calls) :
    /\ calls[c].loadModel = "rejected"
    /\ calls[c].outcome.error = "ImageAnalysisError"

\* C8: once cleanup() has run with no later call, and every call made before it
\* has settled, getModelStatus() reports {isLoaded: false, totalClasses: 0} and
\* every model that was loaded has been disposed.
C8_CleanupReleases ==
  (globalClassifier = 0 /\ AllSettled)
    => /\ getModelStatus = [isLoaded |-> FALSE, totalClasses |-> 0]
       /\ \A t \in 1..Len(tfModels) : tfModels[t] = "disposed"

\* C8, its case: a loaded model disposed by cleanup(), all calls settled
C8_Witness ==
  /\ globalClassifier = 0
  /\ AllSettled
  /\ Len(tfModels) > 0
  /\ \A t \in 1..Len(tfModels) : tfModels[t] = "disposed"

\* the label a classify on the instance gives the class at an index
LabelGiven(inst, index) == classNameAt(classNames(inst), index)

\* C9: when the weights loaded and the label file could not be fetched, loadModel
\* completes without error, the labels are exactly class_0 .. class_999, and a
\* classify gives the class at an index the label class_<index>.
C9_PlaceholderFallback ==
  \A c \in 1..Len(calls) :
    calls[c].labelFetch = "failed"
      => /\ calls[c].loadModel = "resolved"
         /\ Len(classNames(calls[c].self)) = 1000
         /\ \A index \in 0..999 :
              LabelGiven(calls[c].self, index) = <<"class", "_", ToString(index)>>

\* C9, its case: a loadModel that returned after the label fetch failed
C9_Witness ==
  \E c \in 1..Len(calls) :
    /\ calls[c].labelFetch = "failed"
    /\ calls[c].loadModel = "resolved"
    /\ isModelLoaded(calls[c].self)

\* the library when every started weight download and label download settles, and
\* the 100 ms timer of waitForLoading keeps firing: a poll that finds isLoading
\* false for good is eventually made
SpecSettling ==
  /\ Init
  /\ [][Next]_vars
  /\ \A c \in 1..MaxCalls :
       /\ WF_vars(c \in DOMAIN calls /\ LoadLayersModelSettles(c))
       /\ WF_vars(c \in DOMAIN calls /\ LoadImageNetLabelsSettles(c))
       /\ WF_vars(c \in DOMAIN calls /\ WaitForLoadingEnds(c))

\* the call's loadModel has been called and has neither returned nor thrown
LoadModelPending(c) == c \in DOMAIN calls /\ calls[c].loadModel = "pending"

\* the call's loadModel has returned or thrown
LoadModelSettled(c) ==
  c \in DOMAIN calls /\ calls[c].loadModel \in {"resolved", "rejected"}

\* C12: if every started weight download and label download settles, every call
\* of loadModel, those parked in the polling loop of waitForLoading included,
\* eventually returns or throws.
C12_LoadModelSettles ==
  \A c \in 1..MaxCalls : LoadModelPending(c) ~> LoadModelSettled(c)

\* C12, its case: a call that was parked in waitForLoading (it fetched no labels
\* itself) and whose loadModel returned
C12_Witness ==
  \E c \in 1..Len(calls) :
    /\ calls[c].loadModel = "resolved"
    /\ calls[c].labelFetch = "none"

\* the calls of analyzeImage and classifyImage that found the model loaded, did
\* not call loadModel, and are inside classify
ClassifyingWithoutLoad ==
  {c \in 1..Len(calls) : calls[c].loadModel = "none" /\ calls[c].pc = "predictionsData"}

\* C13: in every reachable state an instance whose isModelLoaded() is true has its
\* labels loaded (totalClasses > 0), so a call that skipped loadModel because the
\* model appeared loaded never classifies against an empty label list.
C13_LoadedMeansLabelled ==
  /\ \A inst \in Instances :
       isModelLoaded(inst) => getModelInfo(inst).totalClasses > 0
  /\ \A c \in ClassifyingWithoutLoad : Len(classNames(calls[c].classifySelf)) > 0

\* C13, its case: a call that skipped loadModel is inside classify of an instance
\* whose labels another call has loaded
C13_Witness ==
  \E c \in ClassifyingWithoutLoad :
    /\ isModelLoaded(calls[c].classifySelf)
    /\ Len(classNames(calls[c].classifySelf)) > 0

\* aside from C13: once the loadModel that stored the model has left
\* loadImageNetLabels, a loaded instance has its labels
LabelledOnceLoadReturned ==
  \A inst \in Instances :
    (isModelLoaded(inst) /\ ~isLoading[inst]) => Len(classNames(inst)) > 0

\* C14: whenever a loadModel resolves and no cleanup() has run since the call was
\* made (the instance is still the module's classifier), the model is loaded at
\* that moment, for the call that performed the load and for a call that waited.
C14_ResolvedMeansLoaded ==
  [][\A c \in DOMAIN calls :
       (/\ calls[c].loadModel = "pending"
        /\ calls'[c].loadModel = "resolved"
        /\ globalClassifier' = calls[c].self)
         => model'[calls[c].self] # 0]_vars

\* C14, its case: a call that waited in the polling loop has returned from
\* loadModel with the model loaded and no cleanup() in between
C14_Witness ==
  \E c \in 1..Len(calls) :
    /\ calls[c].loadModel = "resolved"
    /\ calls[c].labelFetch = "none"
    /\ globalClassifier = calls[c].self
    /\ isModelLoaded(calls[c].self)

\* aside from C14: it holds of the call that performs the load
LoaderResolvedMeansLoaded ==
  [][\A c \in DOMAIN calls :
       (/\ calls[c].pc = "loadImageNetLabels"
        /\ calls'[c].loadModel = "resolved"
        /\ globalClassifier' = calls[c].self)
         => model'[calls[c].self] # 0]_vars

---------------------------------------------------------------------------
(* The development server, src/unnamed/part_000.  A path is a sequence of  *)
(* tokens: "/" and "." are tokens of their own, a name is one token.       *)

\* __dirname: the directory the script lies in, here /srv
Dirname == <<"/", "srv">>

\* mimeTypes
mimeTypes ==
  ( <<".", "html">> :> "text/html" @@
    <<".", "js">> :> "text/javascript" @@
    <<".", "css">> :> "text/css" @@
    <<".", "json">> :> "application/json" @@
    <<".", "png">> :> "image/png" @@
    <<".", "jpg">> :> "image/jpeg" @@
    <<".", "gif">> :> "image/gif" @@
    <<".", "svg">> :> "image/svg+xml" @@
    <<".", "ico">> :> "image/x-icon" )

RECURSIVE normalizeString(_, _)
\* path.normalize on the segments of an absolute path: "" and "." are dropped,
\* ".." drops the segment before it, or itself at the root
normalizeString(segments, res) ==
  IF Len(segments) = 0 THEN res
  ELSE LET segment == segments[1]
       IN  IF segment = << >> \/ segment = <<".">>
           THEN normalizeString(Tail(segments), res)
           ELSE IF segment = <<".", ".">>
           THEN normalizeString(Tail(segments),
                                IF Len(res) > 0 THEN SubSeq(res, 1, Len(res) - 1) ELSE res)
           ELSE normalizeString(Tail(segments), Append(res, segment))

\* path.normalize of an absolute path; a trailing separator is kept
pathNormalize(path) ==
  LET res == normalizeString(JsSplit(path, "/"), << >>)
      trailingSeparator == path[Len(path)] = "/"
  IN  <<"/">> \o JsJoin(res, <<"/">>)
        \o (IF Len(res) > 0 /\ trailingSeparator THEN <<"/">> ELSE << >>)

\* path.join(__dirname, pathname): both joined by a separator, then normalized
pathJoin(dirname, name) == pathNormalize(dirname \o <<"/">> \o name)

\* filePath.indexOf(__dirname) === 0: filePath starts with __dirname
startsWith(path, prefix) ==
  Len(prefix) <= Len(path) /\ SubSeq(path, 1, Len(prefix)) = prefix

\* path.extname(filePath): from the last "." of the last segment on, "" when that
\* segment has no "." or only a leading one, or is ".."
pathExtname(path) ==
  LET slashes == {i \in 1..Len(path) : path[i] = "/"}
      start == IF slashes = {} THEN 1
               ELSE (CHOOSE i \in slashes : \A j \in slashes : j <= i) + 1
      base == SubSeq(path, start, Len(path))
      dots == {i \in 1..Len(base) : base[i] = "."}
      lastDot == IF dots = {} THEN 0 ELSE CHOOSE i \in dots : \A j \in dots : j <= i
  IN  IF lastDot <= 1 \/ base = <<".", ".">> THEN << >>
      ELSE SubSeq(base, lastDot, Len(base))

\* mimeTypes[extname] || 'application/octet-stream'
contentTypeOf(path) ==
  IF pathExtname(path) \in DOMAIN mimeTypes THEN mimeTypes[pathExtname(path)]
  ELSE "application/octet-stream"

\* the headers of the three Access-Control-Allow-* entries
CorsHeaders ==
  {"Access-Control-Allow-Origin", "Access-Control-Allow-Methods",
   "Access-Control-Allow-Headers"}

\* res.writeHead(403): no headers
forbidden == [status |-> 403, headers |-> {}]

\* the callback of fs.readFile in serveFile: 404 for ENOENT, 500 for any other
\* error, else 200 with the content type and the CORS headers
serveFileResponse(err) ==
  IF err = "ENOENT" THEN [status |-> 404, headers |-> {"Content-Type"}]
  ELSE IF err # "none" THEN [status |-> 500, headers |-> {}]
  ELSE [status |-> 200, headers |-> {"Content-Type"} \cup CorsHeaders]

\* the tokens of a request pathname
PathTokens == {"/", ".", "srv", "2", "html"}

\* how fs.readFile may end: the content, no such file, or another error
ReadFileErrors == {"none", "ENOENT", "EISDIR"}

\* a request arrives and its pathname grows token by token (the client's choice)
TypePathname ==
  /\ serverPc = "listening"
  /\ Len(pathname) < MaxPath
  /\ \E token \in PathTokens :
       /\ Len(pathname) = 0 => token = "/"
       /\ pathname' = Append(pathname, token)
  /\ UNCHANGED <<serverPc, filePath, response, libraryVars, captionVars, classifyVars, progressVars>>

\* the handler of http.createServer: "/" becomes "/test.html", the path is joined
\* to __dirname, and a path that does not start with __dirname is answered 403;
\* otherwise serveFile starts fs.readFile
HandleRequest ==
  /\ serverPc = "listening"
  /\ Len(pathname) > 0
  /\ LET name == IF pathname = <<"/">> THEN <<"/", "test", ".", "html">> ELSE pathname
         joined == pathJoin(Dirname, name)
     IN  IF ~startsWith(joined, Dirname)
         THEN /\ response' = forbidden
              /\ serverPc' = "responded"
              /\ UNCHANGED filePath
         ELSE /\ filePath' = joined
              /\ serverPc' = "reading"
              /\ UNCHANGED response
  /\ UNCHANGED <<pathname, libraryVars, captionVars, classifyVars, progressVars>>

\* the callback of fs.readFile runs
ReadFileCallback ==
  /\ serverPc = "reading"
  /\ \E err \in ReadFileErrors : response' = serveFileResponse(err)
  /\ serverPc' = "responded"
  /\ UNCHANGED <<pathname, filePath, libraryVars, captionVars, classifyVars, progressVars>>

InitServer ==
  /\ ServerIdle
  /\ LibraryIdle
  /\ CaptionIdle
  /\ ClassifyIdle
  /\ ProgressIdle

NextServer == TypePathname \/ HandleRequest \/ ReadFileCallback

SpecServer == InitServer /\ [][NextServer]_vars

\* C10, as stated: every response the server sends, 200, 403, 404 or 500, carries
\* the three CORS headers.
C10_CorsOnEveryResponse ==
  serverPc = "responded" => CorsHeaders \subseteq response.headers

\* what the code does instead: a response carries the three CORS headers exactly
\* when its status is 200; the 403, 404 and 500 responses carry none of them
CorsOn200Only ==
  serverPc = "responded"
    => /\ response.status \in {200, 403, 404, 500}
       /\ response.status = 200 => CorsHeaders \subseteq response.headers
       /\ response.status # 200 => response.headers \cap CorsHeaders = {}

\* C10, its case: a file was looked up and the request answered 404
C10_Witness ==
  /\ serverPc = "responded"
  /\ response.status = 404
  /\ filePath # << >>

\* the path the handler joins for the request: path.join(__dirname, pathname),
\* with "/" taken as "/test.html"
JoinedPath ==
  pathJoin(Dirname, IF pathname = <<"/">> THEN <<"/", "test", ".", "html">> ELSE pathname)

\* a path that is the server's directory or lies under it
InsideDirname(path) == path = Dirname \/ startsWith(path, Dirname \o <<"/">>)

\* C11: whenever the joined and normalised path of a request lies outside the
\* server's directory, the request is answered 403 and no file is read; every
\* file handed to fs.readFile lies inside the server's directory.
C11_TraversalGuard ==
  /\ filePath # << >> => InsideDirname(filePath)
  /\ (serverPc # "listening" /\ ~InsideDirname(JoinedPath))
       => /\ filePath = << >>
          /\ response.status = 403

\* C11, its case: a request whose joined path leaves the directory was handled
C11_Witness ==
  /\ serverPc = "responded"
  /\ ~InsideDirname(JoinedPath)
  /\ response.status = 403

\* aside from C11: a path that does not even start with the directory's name is
\* answered 403 and never read
GuardStopsNonPrefix ==
  (serverPc # "listening" /\ ~startsWith(JoinedPath, Dirname))
    => (filePath = << >> /\ response.status = 403)

---------------------------------------------------------------------------
(* SpecProgress: the onLoadProgress callback of loadModel, lines 39-54 of    *)
(* src/unnamed/part_002, on one ImageClassifier. Progress values are in      *)
(* hundredths.                                                                *)

\* setTimeout(() => onLoadProgress(0.3), 100); setTimeout(() => onLoadProgress(0.7), 500):
\* the value each of the two timers delivers, in the order they fire
timerProgress == <<30, 70>>

\* onLoadProgress(1.0) after the labels are loaded
fullProgress == <<100>>

\* a loadModel that finds no model and no load in flight: this.isLoading = true,
\* the two timers set when a callback is given, then "await tf.loadLayersModel"
startedLoad(onLoadProgress) ==
  [onLoadProgress |-> onLoadProgress, pc |-> "loadLayersModel", timersFired |-> 0,
   delivered |-> << >>, deliveredAtFailure |-> -1]

\* no load in flight and no model: every loadModel so far has thrown
canStartLoad == \A i \in 1..Len(progressLoads) : progressLoads[i].pc = "rejected"

\* loadModel(options) is called, with or without options.onLoadProgress
StartLoadModel ==
  /\ Len(progressLoads) < MaxLoads
  /\ canStartLoad
  /\ \E onLoadProgress \in BOOLEAN :
       progressLoads' = Append(progressLoads, startedLoad(onLoadProgress))
  /\ UNCHANGED <<libraryVars, captionVars, classifyVars, serverVars>>

\* timers fire in the order of their due times: the 100 ms timer of a call before
\* its 500 ms timer, and a timer of an earlier call before the timer of the same
\* delay of a later call
timerDue(i) ==
  /\ progressLoads[i].onLoadProgress
  /\ progressLoads[i].timersFired < Len(timerProgress)
  /\ \A j \in 1..(i - 1) :
       progressLoads[j].onLoadProgress
         => progressLoads[j].timersFired > progressLoads[i].timersFired

\* a timer of the call fires: onLoadProgress(0.3) or onLoadProgress(0.7), whatever
\* has become of the load
TimerFires(i) ==
  /\ timerDue(i)
  /\ progressLoads' = [progressLoads EXCEPT ![i] =
       [@ EXCEPT !.timersFired = @ + 1,
                 !.delivered = Append(@, timerProgress[progressLoads[i].timersFired + 1])]]
  /\ UNCHANGED <<libraryVars, captionVars, classifyVars, serverVars>>

\* "this.model = await tf.loadLayersModel(modelUrl)" settles: loadImageNetLabels
\* is awaited next, or loadModel throws
WeightsSettle(i) ==
  /\ progressLoads[i].pc = "loadLayersModel"
  /\ \E ok \in BOOLEAN :
       progressLoads' = [progressLoads EXCEPT ![i] =
         IF ok THEN [@ EXCEPT !.pc = "loadImageNetLabels"]
         ELSE [@ EXCEPT !.pc = "rejected",
                        !.deliveredAtFailure = Len(progressLoads[i].delivered)]]
  /\ UNCHANGED <<libraryVars, captionVars, classifyVars, serverVars>>

\* "await this.loadImageNetLabels()" settles (it never throws): onLoadProgress(1.0)
\* is called when a callback was given, and loadModel returns
LabelsSettle(i) ==
  /\ progressLoads[i].pc = "loadImageNetLabels"
  /\ progressLoads' = [progressLoads EXCEPT ![i] =
       [@ EXCEPT !.pc = "resolved",
                 !.delivered = IF progressLoads[i].onLoadProgress
                               THEN @ \o fullProgress ELSE @]]
  /\ UNCHANGED <<libraryVars, captionVars, classifyVars, serverVars>>

InitProgress ==
  /\ ProgressIdle
  /\ LibraryIdle
  /\ CaptionIdle
  /\ ClassifyIdle
  /\ ServerIdle

NextProgress ==
  \/ StartLoadModel
  \/ \E i \in 1..Len(progressLoads) : TimerFires(i)
  \/ \E i \in 1..Len(progressLoads) : WeightsSettle(i)
  \/ \E i \in 1..Len(progressLoads) : LabelsSettle(i)

SpecProgress == InitProgress /\ [][NextProgress]_vars

\* the values are in non-decreasing order
NonDecreasing(values) ==
  \A a, b \in 1..Len(values) : a < b => values[a] <= values[b]

\* 1.0, if among the values, is the last of them
FullIsLast(values) ==
  \A a \in 1..Len(values) : values[a] = fullProgress[1] => a = Len(values)

\* C15: the values delivered to the onLoadProgress callback of a loadModel call are
\* in non-decreasing order, 1.0 is the last value if it is delivered, and no value
\* is delivered after the load has failed, whenever the timers fire.
C15_ProgressMonotone ==
  \A i \in 1..Len(progressLoads) :
    progressLoads[i].onLoadProgress
      => /\ NonDecreasing(progressLoads[i].delivered)
         /\ FullIsLast(progressLoads[i].delivered)
         /\ progressLoads[i].pc = "rejected"
              => Len(progressLoads[i].delivered) = progressLoads[i].deliveredAtFailure

\* C15, its case: a load that took longer than both timers and delivered 0.3, 0.7
\* and 1.0 to its callback
C15_Witness ==
  \E i \in 1..Len(progressLoads) :
    /\ progressLoads[i].onLoadProgress
    /\ progressLoads[i].pc = "resolved"
    /\ progressLoads[i].delivered = <<30, 70, 100>>

\* aside from C15: a load that outlasts both timers delivers its values in
\* non-decreasing order with 1.0 last, and the two timer values are always
\* delivered in their order
TimersInOrder ==
  \A i \in 1..Len(progressLoads) :
    LET fromTimers == SelectSeq(progressLoads[i].delivered, LAMBDA v : v # fullProgress[1])
    IN  /\ NonDecreasing(fromTimers)
        /\ Len(fromTimers) = progressLoads[i].timersFired

---------------------------------------------------------------------------
(* SpecClassify: classify on every bounded probability vector *)

\* probabilities the vectors are drawn from: 0, 0.3 and 0.7
VectorProbabilities == {0, 30, 70}

\* a label file's lines that are fewer than the classes and hold an empty line
ShortLabels == << <<"tench">>, << >>, <<"golden", "_", "retriever">> >>

\* what this.classNames may hold once a model is loaded
LabelLists == {placeholderLabels, ShortLabels}

\* the maxPredictions options a caller may give: none, or an integer
MaxPredictionsOptions == {<< >>} \cup {<<k>> : k \in -1..(MaxVector + 1)}

InitClassify ==
  /\ CaptionIdle
  /\ LibraryIdle
  /\ ServerIdle
  /\ ProgressIdle
  /\ \E p \in VectorProbabilities : probabilities = <<p>>
  /\ labelList \in LabelLists
  /\ maxPredictions = NoCount
  /\ lastIndices = << >>
  /\ classified = << >>

\* the model's output grows by one class
PushProbability ==
  /\ maxPredictions = NoCount
  /\ Len(probabilities) < MaxVector
  /\ \E p \in VectorProbabilities : probabilities' = Append(probabilities, p)
  /\ UNCHANGED <<labelList, maxPredictions, lastIndices, classified, captionVars, libraryVars, serverVars, progressVars>>

\* globalClassifier.classify(tensor, options.maxPredictions || 5)
CallClassify ==
  /\ maxPredictions = NoCount
  /\ \E option \in MaxPredictionsOptions :
       /\ maxPredictions' = <<maxPredictionsArg(option)>>
       /\ lastIndices' = topIndices(probabilities, maxPredictionsArg(option))
       /\ classified' = classify(labelList, probabilities, maxPredictionsArg(option))
  /\ UNCHANGED <<probabilities, labelList, captionVars, libraryVars, serverVars, progressVars>>

NextClassify == PushProbability \/ CallClassify

SpecClassify == InitClassify /\ [][NextClassify]_vars

\* classify has been called
ClassifyCalled == maxPredictions # NoCount

\* the count classify was called with
K == maxPredictions[1]

\* the records come in non-increasing order of probability
ResultsDescending ==
  \A i \in 1..(Len(classified) - 1) : classified[i].probability >= classified[i + 1].probability

\* each record carries the probability of its own index, as probability and as
\* confidence, no index twice, and no class left out has a higher probability
ResultsAreTop ==
  /\ Len(lastIndices) = Len(classified)
  /\ \A i \in 1..Len(classified) :
       /\ (lastIndices[i].index + 1) \in 1..Len(probabilities)
       /\ classified[i].probability = probabilities[lastIndices[i].index + 1]
       /\ classified[i].confidence = classified[i].probability
  /\ \A i, j \in 1..Len(classified) : i # j => lastIndices[i].index # lastIndices[j].index
  /\ \A n \in 1..Len(probabilities) :
       (\A i \in 1..Len(classified) : lastIndices[i].index # n - 1)
         => \A i \in 1..Len(classified) : classified[i].probability >= probabilities[n]

\* a non-empty label is stored at the index
LabelStoredAt(index) == (index + 1) \in 1..Len(labelList) /\ labelList[index + 1] # << >>

\* C3, as stated: classify returns exactly K records, in non-increasing order of
\* probability, each with the label stored at its index and its probability as
\* confidence.
C3_ExactlyK ==
  ClassifyCalled
    => /\ Len(classified) = K
       /\ ResultsDescending
       /\ ResultsAreTop
       /\ \A i \in 1..Len(classified) :
            /\ LabelStoredAt(lastIndices[i].index)
            /\ classified[i].className = labelList[lastIndices[i].index + 1]

\* C3, amended: for K >= 0 classify returns exactly min(K, N) records of a vector of
\* N classes, the N - |K| first of the order for K < 0, in non-increasing order of
\* probability; each has its probability as confidence and the label stored at its
\* index, or Unknown_<index> where no non-empty label is stored there.
C3_AtMostK ==
  ClassifyCalled
    => /\ K >= 0 => Len(classified) = Min(K, Len(probabilities))
       /\ K < 0 => Len(classified) = Max(Len(probabilities) + K, 0)
       /\ ResultsDescending
       /\ ResultsAreTop
       /\ \A i \in 1..Len(classified) :
            classified[i].className =
              IF LabelStoredAt(lastIndices[i].index)
              THEN labelList[lastIndices[i].index + 1]
              ELSE <<"Unknown", "_", ToString(lastIndices[i].index)>>

\* C3, its case: 3 records asked of a vector of 5 classes whose highest
\* probability is not at the first index
C3_Witness ==
  /\ ClassifyCalled
  /\ K = 3
  /\ Len(probabilities) = 5
  /\ Len(classified) = 3
  /\ lastIndices[1].index # 0
  /\ classified[1].probability > classified[3].probability

---------------------------------------------------------------------------
(* SpecCaption: generateSmartCaption on every bounded classification list  *)
(* that is sorted by descending probability                                *)

\* labels the lists are drawn from: two animals, a food, a vehicle that has no
\* translation, and a label of no category
CaptionLabels ==
  { <<"golden", "_", "retriever">>, <<"tabby">>, <<"banana">>, <<"truck">>,
    <<"class", "_", "1">> }

\* probabilities the lists are drawn from: 0, 0.8 and 0.9
CaptionConfidences == {0, 80, 90}

\* a ClassificationResult as ImageClassifier.classify builds it
ClassificationResult(className, probability) ==
  [className |-> className, probability |-> probability, confidence |-> probability]

InitCaption ==
  /\ CaptionIdle
  /\ ClassifyIdle
  /\ LibraryIdle
  /\ ServerIdle
  /\ ProgressIdle

\* the caller appends one more record, of a probability no higher than the last
PushClassification ==
  /\ altTextResult = NoResult
  /\ Len(classifications) < MaxList
  /\ \E className \in CaptionLabels, p \in CaptionConfidences :
       /\ Len(classifications) > 0 => p <= classifications[Len(classifications)].probability
       /\ classifications' = Append(classifications, ClassificationResult(className, p))
  /\ UNCHANGED <<lastAnalysis, altTextResult, classifyVars, libraryVars, serverVars, progressVars>>

\* SmartCaptionGenerator.generateSmartCaption(classifications)
CallGenerateSmartCaption ==
  /\ altTextResult = NoResult
  /\ lastAnalysis' = IF Len(classifications) = 0 THEN NoAnalysis
                     ELSE analyzeClassifications(classifications)
  /\ altTextResult' = generateSmartCaption(classifications)
  /\ UNCHANGED <<classifications, classifyVars, libraryVars, serverVars, progressVars>>

NextCaption == PushClassification \/ CallGenerateSmartCaption

SpecCaption == InitCaption /\ [][NextCaption]_vars

\* generateSmartCaption has been called on the list
CaptionCalled == altTextResult # NoResult

\* the records analyzeClassifications looks at
Top3 == SubSeq(classifications, 1, Min(3, Len(classifications)))

\* the categories of the top 3 records
Top3Categories == {getObjectCategory(Top3[i].className) : i \in 1..Len(Top3)}

\* the positions in the top 3 of the records of a category
MembersOf(category) == {i \in 1..Len(Top3) : getObjectCategory(Top3[i].className) = category}

RECURSIVE ConfidenceOver(_)
\* the sum of the confidences of the top 3 records at the positions of a set
ConfidenceOver(positions) ==
  IF positions = {} THEN 0
  ELSE LET i == CHOOSE j \in positions : TRUE
       IN  Top3[i].confidence + ConfidenceOver(positions \ {i})

\* the mean confidence of category a is at least that of category b
MeanAtLeast(a, b) ==
  ConfidenceOver(MembersOf(a)) * Cardinality(MembersOf(b))
    >= ConfidenceOver(MembersOf(b)) * Cardinality(MembersOf(a))

\* C4: for every non-empty list whose top 3 records span more than one category, the
\* dominant category that getDominantCategory computed is a category of those
\* records and no category of them has a higher mean confidence.
C4_DominantHasHighestMean ==
  (CaptionCalled /\ Len(classifications) > 0 /\ Cardinality(Top3Categories) > 1)
    => /\ lastAnalysis.dominantCategory \in Top3Categories
       /\ \A c \in Top3Categories : MeanAtLeast(lastAnalysis.dominantCategory, c)

\* C4, its case: a list over two categories, the second with the higher mean, analysed
C4_Witness ==
  /\ CaptionCalled
  /\ Cardinality(Top3Categories) > 1
  /\ lastAnalysis.dominantCategory # getObjectCategory(classifications[1].className)
  /\ lastAnalysis.dominantCategory \in Top3Categories

\* C5: generateSmartCaption never throws: on every list sorted by descending
\* probability with probabilities in [0,1], 0 included, it returns a result that
\* holds a sentence.
C5_NeverThrows ==
  CaptionCalled => (altTextResult.error = "none" /\ Len(altTextResult.value.altText) > 0)

\* C5, its case: a call that returned a sentence for a list whose top probability is 0
C5_Witness ==
  /\ CaptionCalled
  /\ Len(classifications) > 0
  /\ classifications[1].probability = 0
  /\ altTextResult.error = "none"

\* the labels of the animals category
AnimalLabels == OBJECT_CATEGORIES[1].objects

\* C6's <L>: the table's translation, or the label with each underscore a blank
ExpectedKoreanName(label) ==
  IF label \in DOMAIN KOREAN_TRANSLATIONS THEN KOREAN_TRANSLATIONS[label]
  ELSE [i \in 1..Len(label) |-> IF label[i] = "_" THEN " " ELSE label[i]]

\* C6: for a list of one record whose label is an animal and whose probability is
\* above 0.8, generateSmartCaption returns '귀여운 <L>의 사진입니다' and the record's
\* confidence.
C6_CuteAnimalCaption ==
  (/\ CaptionCalled
   /\ Len(classifications) = 1
   /\ classifications[1].className \in AnimalLabels
   /\ classifications[1].probability > 80)
    => /\ altTextResult.error = "none"
       /\ altTextResult.value.altText =
            <<"<ADC0><C5EC><C6B4> ">> \o ExpectedKoreanName(classifications[1].className)
              \o <<"<C758> <C0AC><C9C4><C785><B2C8><B2E4>">>
       /\ altTextResult.value.confidence = classifications[1].confidence

\* C6, its case: the caption of the single record golden_retriever at 0.9
C6_Witness ==
  /\ CaptionCalled
  /\ classifications = <<ClassificationResult(<<"golden", "_", "retriever">>, 90)>>
  /\ altTextResult.error = "none"

\* C7: for the empty list generateSmartCaption returns the sentence
\* '분석할 수 없는 이미지입니다', an empty classification list and confidence 0.
C7_EmptyListCaption ==
  (CaptionCalled /\ classifications = << >>)
    => /\ altTextResult.error = "none"
       /\ altTextResult.value =
            [altText |-> <<"<BD84><C11D><D560> <C218> <C5C6><B294> <C774><BBF8><C9C0><C785><B2C8><B2E4>">>,
             classifications |-> << >>,
             confidence |-> 0]

\* C7, its case: generateSmartCaption called on the empty list
C7_Witness == CaptionCalled /\ classifications = << >>

====
